---------------------------- MODULE Spec2Model ----------------------------
(***************************************************************************)
(* Model of the Ethical-Reasoning-Framework scripts.                       *)
(*                                                                         *)
(*   src/demo.py             solve_moral_situation_split_stream, variant   *)
(*                           "demo" (labels NAH / NTA, returns "Unclear"   *)
(*                           when the optimizer does not report sat)       *)
(*   src/high_conflict_z3.py the same function, variant "hc" (labels       *)
(*                           NTA / NAH, no final return), and the batch    *)
(*                           loop over the lines of the vector file        *)
(*                                                                         *)
(* Numbers of a quality vector are doubles written <<n, e>>, the value     *)
(* n / 2^e with an integer n inside the integers TLC computes (from -2^31  *)
(* to 2^31 - 1) and 0 <= e <= 1074: 0.5 is <<1, 1>>, 1.25 is <<5, 2>>, the *)
(* integer 3 is <<3, 0>>, the smallest subnormal is <<1, 1074>>.  Every    *)
(* such pair is a value a Python float holds exactly.  Add, Mul and int    *)
(* give the double Python's +, * and int() give: a sum or product that     *)
(* fits is exact, a product below the subnormal grid is rounded to it      *)
(* (ties to even, possibly to zero), a sum whose smaller term is under     *)
(* half an ulp of the larger is the larger.  Where the result's numerator  *)
(* needs more than TLC's integers TLC stops with an overflow and computes  *)
(* no value.  A decimal such as 0.7 is the nearest double, whose 53-bit    *)
(* numerator is outside the model's integers; such inputs are not in the   *)
(* model.                                                                  *)
(* Content flags are plain integers.  A dict key that may be absent is a   *)
(* pair of fields: has_x (the key is present) and x (its value).  Python's *)
(* None is the string NoneValue.                                           *)
(*                                                                         *)
(* z3's Optimize is a library outside the repository.  It is modelled by   *)
(* its interface: check() answers sat or not (CheckResults), and after sat *)
(* model() is some assignment of the four Booleans that maximises the      *)
(* summed weight of the satisfied soft clauses (OptimizeModels).  Which    *)
(* of several tied maxima the library holds is not decided in the          *)
(* repository; a call here may see any of them.                            *)
(***************************************************************************)
EXTENDS Integers, Sequences, FiniteSets, TLC

VARIABLES
    post_data,      \* the argument of solve_moral_situation_split_stream
    script,         \* which file's function ran: "demo", "hc" ("none" before)
    pc,             \* "start", then "returned" or "raised"
    locals,         \* per comment visited: q_vec after padding, the mapped
                    \* variables and the two weights
    soft,           \* the soft clauses given to opt.add_soft, in order
    checked,        \* opt.check() was called
    check_result,   \* its answer ("none" when not called)
    model,          \* the four values read from opt.model()
    verdict,        \* the value returned (NoneValue: Python's None)
    exc,            \* the exception that left the function ("none")
    file,           \* batch: the lines of the vector file
    gt_map,         \* batch: post_id -> ground truth label
    idx,            \* batch: the line the loop reads next
    rows,           \* batch: the rows written to the CSV
    count,          \* batch: the counter of processed posts
    mainpc          \* batch: "loop", "finished", "aborted" ("off" outside)

vars == <<post_data, script, pc, locals, soft, checked, check_result, model,
          verdict, exc,
          file, gt_map, idx, rows, count, mainpc>>

solve_vars == <<post_data, script, pc, locals, soft, checked, check_result,
                model, verdict, exc>>
batch_vars == <<file, gt_map, idx, rows, count, mainpc>>

---------------------------------------------------------------------------
(* Bounds of the model. *)

\* longest comment list of a post
MaxComments == 2
\* longest content vector (the code reads entries 0..3)
MaxCLen == 4
\* longest quality vector (the code reads entries 0..4)
MaxQLen == 6
\* longest vector file of the batch run
MaxLines == 3

---------------------------------------------------------------------------
(* Numbers. *)

Zero == <<0, 0>>
Half == <<1, 1>>
One  == <<1, 0>>
Two  == <<2, 0>>

Max(a, b) == IF a > b THEN a ELSE b

\* The double nearest to n / 2^e.  With e <= 1074 the value is a double
\* already.  Below that it is rounded to a multiple of 2^-1074, the spacing
\* of the subnormals, a tie going to the even multiple: with k = e - 1074,
\* n = q * 2^k + r (q the floor, 0 <= r < 2^k) rounds to q or q + 1.  A
\* shift of 31 places leaves -1, 0 or 1; a shift of 32 or more leaves 0 of
\* every n TLC holds.  n is looked at in every branch, so that a product
\* beyond TLC's integers stops TLC with an overflow in all of them.
round_to_double(n, e) ==
    IF e <= 1074 THEN <<n, e>>
    ELSE LET k == e - 1074
         IN  IF n = 0 \/ k >= 32 THEN <<0, 1074>>
             ELSE IF k = 31
             THEN <<IF n > 2^30 THEN 1 ELSE IF n < -(2^30) THEN -1 ELSE 0, 1074>>
             ELSE LET q  == n \div 2^k
                      r  == n % 2^k
                      up == r > 2^(k - 1) \/ (r = 2^(k - 1) /\ q % 2 = 1)
                  IN  <<IF up THEN q + 1 ELSE q, 1074>>

\* Python's + on doubles.  Adding zero changes nothing.  Two non-zero terms
\* whose exponents are 85 or more apart: the smaller is at most half an ulp
\* of the larger (numerators are at most 2^31 in size, a double keeps 53
\* bits) and reaches the half only below a power of two, where the tie goes
\* to the power of two, so the sum rounds to the larger.  Otherwise the exact sum over the larger
\* exponent, which is a double.
Add(a, b) ==
    IF a[1] = 0 THEN b
    ELSE IF b[1] = 0 THEN a
    ELSE IF b[2] - a[2] >= 85 THEN a
    ELSE IF a[2] - b[2] >= 85 THEN b
    ELSE LET e == Max(a[2], b[2])
         IN  <<a[1] * 2^(e - a[2]) + b[1] * 2^(e - b[2]), e>>

\* Python's * on doubles: the exact product, rounded when it falls below the
\* subnormal grid.
Mul(a, b) == round_to_double(a[1] * b[1], a[2] + b[2])

\* Python's int(): truncation toward zero.  n \div 2^e is the floor, which
\* is the truncation unless n is negative and leaves a remainder.  Over
\* 2^31 or more every numerator gives a value inside (-1, 1), except
\* -2^31 / 2^31 = -1.
int(a) ==
    IF a[2] >= 32 THEN 0
    ELSE IF a[2] = 31 THEN (IF a[1] < -2147483647 THEN -1 ELSE 0)
    ELSE LET q == a[1] \div 2^a[2]
         IN  IF a[1] < 0 /\ a[1] % 2^a[2] # 0 THEN q + 1 ELSE q

Min(a, b) == IF a < b THEN a ELSE b

NoneValue == "<None>"
Missing == "<missing>"

---------------------------------------------------------------------------
(* The four Booleans and the optimizer. *)

Props == <<"harm", "intent", "empathy", "apology">>

Assignments == [harm : BOOLEAN, intent : BOOLEAN, empathy : BOOLEAN, apology : BOOLEAN]

NoModel == [harm |-> FALSE, intent |-> FALSE, empathy |-> FALSE, apology |-> FALSE]

\* What opt.check() may answer.
CheckResults == {"sat", "unknown"}

RECURSIVE satisfied_weight(_, _)
satisfied_weight(clauses, a) ==
    IF clauses = <<>> THEN 0
    ELSE (IF a[Head(clauses).prop] = Head(clauses).pol THEN Head(clauses).weight ELSE 0)
         + satisfied_weight(Tail(clauses), a)

\* The assignments opt.model() may hold after check() = sat.
OptimizeModels(clauses) ==
    LET w == [a \in Assignments |-> satisfied_weight(clauses, a)]
    IN  {a \in Assignments : \A b \in Assignments : w[a] >= w[b]}

---------------------------------------------------------------------------
(* solve_moral_situation_split_stream, up to the call of opt.check(). *)

get_processed_comments(post) ==
    IF post.has_comments THEN post.processed_comments ELSE <<>>

\* Variant: no early return.
not_comments_never(comments) == FALSE

\* `if not comments`
not_comments(comments) == Len(comments) = 0

get_content_vector(comment) ==
    IF comment.has_c THEN comment.c_vec ELSE <<0, 0, 0, 0>>

get_quality_vector(comment) ==
    IF comment.has_q THEN comment.q_vec ELSE <<One, One, One, One, One>>

\* Variant: padding with zeros.
pad_zeros(q_vec) ==
    IF Len(q_vec) < 5 THEN q_vec \o [k \in 1..(5 - Len(q_vec)) |-> Zero] ELSE q_vec

\* `if len(q_vec) < 5: q_vec = q_vec + [1] * (5 - len(q_vec))`
pad(q_vec) ==
    IF Len(q_vec) < 5 THEN q_vec \o [k \in 1..(5 - Len(q_vec)) |-> One] ELSE q_vec

\* Variant: the non_biased multiplier left out.
w_logic_no_multiplier(justif, delib, non_biased) == int(Add(justif, delib))

w_logic(justif, delib, non_biased) == int(Mul(Add(justif, delib), non_biased))

w_ethic(ethic, fair_blame, non_biased) == int(Mul(Add(ethic, fair_blame), non_biased))

\* The locals of one loop iteration.
map_variables(comment) ==
    LET q == pad(get_quality_vector(comment))
    IN  [q_vec      |-> q,
         justif     |-> q[1],
         ethic      |-> q[2],
         delib      |-> q[3],
         fair_blame |-> q[4],
         non_biased |-> q[5],
         w_logic    |-> w_logic(q[1], q[3], q[5]),
         w_ethic    |-> w_ethic(q[2], q[4], q[5])]

\* `if c_vec[k] == 1: opt.add_soft(p, w) else: opt.add_soft(Not(p), w)`
add_soft(k, flag, w) == [prop |-> Props[k], pol |-> (flag = 1), weight |-> w]

\* The clauses one iteration adds.  c_vec[k] raises IndexError at the first
\* k the vector does not have; the clauses before it were added already.
apply_constraints(c_vec, wl, we) ==
    [k \in 1..Min(4, Len(c_vec)) |-> add_soft(k, c_vec[k], IF k <= 2 THEN wl ELSE we)]

raises_IndexError(c_vec) == Len(c_vec) < 4

\* `for comment in comments:` from the state acc = [locals, soft, exc].
RECURSIVE for_comments(_, _)
for_comments(comments, acc) ==
    IF comments = <<>> \/ acc.exc # "none" THEN acc
    ELSE LET comment == Head(comments)
             c_vec   == get_content_vector(comment)
             l       == map_variables(comment)
         IN  for_comments(Tail(comments),
                 [locals |-> Append(acc.locals, l),
                  soft   |-> acc.soft \o apply_constraints(c_vec, l.w_logic, l.w_ethic),
                  exc    |-> IF raises_IndexError(c_vec) THEN "IndexError" ELSE "none"])

---------------------------------------------------------------------------
(* The final rules of the two files. *)

\* Variant: NTA and ESH exchanged under harm without intent.
final_rules_demo_swapped(m) ==
    IF m.harm /\ m.intent THEN "YTA"
    ELSE IF ~m.harm THEN "NAH"
    ELSE IF m.empathy \/ m.apology THEN "ESH"
    ELSE "NTA"

\* src/demo.py
final_rules_demo(m) ==
    IF m.harm /\ m.intent THEN "YTA"
    ELSE IF ~m.harm THEN "NAH"
    ELSE IF m.harm /\ ~m.intent
         THEN (IF m.empathy \/ m.apology THEN "NTA" ELSE "ESH")
         ELSE "Unclear"

\* Variant: NTA in both branches.
final_rules_hc_same_labels(m) ==
    IF ~m.harm THEN "NTA"
    ELSE IF m.harm /\ m.intent THEN "YTA"
    ELSE IF m.empathy \/ m.apology THEN "NTA"
    ELSE "ESH"

\* src/high_conflict_z3.py
final_rules_hc(m) ==
    IF ~m.harm THEN "NTA"
    ELSE IF m.harm /\ m.intent THEN "YTA"
    ELSE IF m.harm /\ ~m.intent
         THEN (IF m.empathy \/ m.apology THEN "NAH" ELSE "ESH")
         ELSE NoneValue

\* Variant: the first value read from m[intent].
read_model_intent_for_harm(m) ==
    [harm |-> m.intent, intent |-> m.intent, empathy |-> m.empathy, apology |-> m.apology]

\* `is_harm = is_true(m[harm])` ... `is_apology = is_true(m[apology])`
read_model(m) ==
    [harm |-> m.harm, intent |-> m.intent, empathy |-> m.empathy, apology |-> m.apology]

final_rules(s, m) == IF s = "demo" THEN final_rules_demo(m) ELSE final_rules_hc(m)

\* What the function returns when opt.check() is not sat: demo.py ends with
\* `return "Unclear"`, high_conflict_z3.py falls off its end.
not_sat_return(s) == IF s = "demo" THEN "Unclear" ELSE NoneValue

\* One whole call: the outcome for the optimizer's answer r and, when r is
\* sat, its model m.
solve_moral_situation_split_stream(s, post, r, m) ==
    LET comments == get_processed_comments(post)
        loop     == for_comments(comments, [locals |-> <<>>, soft |-> <<>>, exc |-> "none"])
    IN  IF not_comments(comments)
        THEN [pc |-> "returned", locals |-> <<>>, soft |-> <<>>, checked |-> FALSE,
              check_result |-> "none", model |-> NoModel, verdict |-> "No Data",
              exc |-> "none"]
        ELSE IF loop.exc # "none"
        THEN [pc |-> "raised", locals |-> loop.locals, soft |-> loop.soft,
              checked |-> FALSE, check_result |-> "none", model |-> NoModel,
              verdict |-> NoneValue, exc |-> loop.exc]
        ELSE IF r = "sat"
        THEN [pc |-> "returned", locals |-> loop.locals, soft |-> loop.soft,
              checked |-> TRUE, check_result |-> r, model |-> read_model(m),
              verdict |-> final_rules(s, read_model(m)), exc |-> "none"]
        ELSE [pc |-> "returned", locals |-> loop.locals, soft |-> loop.soft,
              checked |-> TRUE, check_result |-> r, model |-> NoModel,
              verdict |-> not_sat_return(s), exc |-> "none"]

\* The soft clauses the loop of a call gives the optimizer.
soft_clauses(post) ==
    for_comments(get_processed_comments(post),
                 [locals |-> <<>>, soft |-> <<>>, exc |-> "none"]).soft

\* What the optimizer may answer on these clauses: <<check(), model()>>.
OptimizerAnswers(clauses) ==
    {<<"sat", m>> : m \in OptimizeModels(clauses)}
    \cup {<<r, NoModel>> : r \in CheckResults \ {"sat"}}

---------------------------------------------------------------------------
(* The inputs. *)

PostIds == {"p1", "p2"}

Flags == {0, 1}

SeqsUpTo(S, n) == UNION {[1..k -> S] : k \in 0..n}

Comment(has_c, c_vec, has_q, q_vec) ==
    [has_c |-> has_c, c_vec |-> c_vec, has_q |-> has_q, q_vec |-> q_vec]

Post(post_id, has_comments, comments) ==
    [post_id |-> post_id, has_comments |-> has_comments, processed_comments |-> comments]

\* Posts with no comment: the key absent, or an empty list.
NoCommentPosts == {Post(id, h, <<>>) : id \in PostIds, h \in BOOLEAN}

\* One comment of any shape: either vector absent, short, exact or long.
\* The quality entries are 0.5 and 2, so that the ones of the padding show
\* and the products 0.5, 1.25, 2.5 are truncated.
ShapeQVals == {Half, Two}

ShapeComments ==
    {Comment(TRUE, c, TRUE, q) :
        c \in SeqsUpTo(Flags, MaxCLen), q \in SeqsUpTo(ShapeQVals, MaxQLen)}
    \cup {Comment(FALSE, <<>>, TRUE, q) : q \in SeqsUpTo(ShapeQVals, MaxQLen)}
    \cup {Comment(TRUE, c, FALSE, <<>>) : c \in SeqsUpTo(Flags, MaxCLen)}
    \cup {Comment(FALSE, <<>>, FALSE, <<>>)}

ShapePosts == {Post("p1", TRUE, <<c>>) : c \in ShapeComments}

\* Several well-shaped comments with different weights; their content
\* vectors flag empathy and apology alike.
\* all ones gives w_logic = 2, w_ethic = 2;
\* [2, 0.5, 1, 1, 1] gives w_logic = int(3.0) = 3, w_ethic = int(1.5) = 1.
WeightQVecs == {<<One, One, One, One, One>>, <<Two, Half, One, One, One>>}

WeightComments ==
    {Comment(TRUE, c, TRUE, q) : c \in {v \in [1..4 -> Flags] : v[3] = v[4]}, q \in WeightQVecs}

WeightPosts ==
    {Post("p1", TRUE, cs) : cs \in SeqsUpTo(WeightComments, MaxComments) \ {<<>>}}

Posts == NoCommentPosts \cup ShapePosts \cup WeightPosts

\* The lines of the vector file.  kind: "blank" (only white space),
\* "garbage" (json.loads raises JSONDecodeError), "value" (valid JSON that
\* is no object: a list, a number, null), "object" (a post).
NoPost == Post(Missing, FALSE, <<>>)

Line(kind, post) == [kind |-> kind, post |-> post]

BatchPosts ==
    { Post("p1", TRUE, <<Comment(TRUE, <<1, 1, 0, 0>>, TRUE, <<One, One, One, One, One>>)>>),
      Post("p2", TRUE, <<Comment(TRUE, <<1, 0, 1, 0>>, FALSE, <<>>)>>),
      Post(Missing, FALSE, <<>>),
      Post("p2", TRUE, <<Comment(TRUE, <<1>>, TRUE, <<One, One, One, One, One>>)>>) }

BatchLines ==
    {Line("blank", NoPost), Line("garbage", NoPost), Line("value", NoPost)}
    \cup {Line("object", p) : p \in BatchPosts}

GtMaps == { [p \in {"p1"} |-> "YTA"], [p \in {"p1", "p2"} |-> "NTA"] }

---------------------------------------------------------------------------
(* Calls of the function. *)

SolveIdle ==
    /\ script = "none" /\ pc = "start" /\ locals = <<>> /\ soft = <<>>
    /\ checked = FALSE /\ check_result = "none" /\ model = NoModel
    /\ verdict = NoneValue /\ exc = "none"

BatchOff ==
    /\ file = <<>> /\ gt_map = <<>> /\ idx = 1 /\ rows = <<>> /\ count = 0
    /\ mainpc = "off"

Init ==
    /\ post_data \in Posts
    /\ SolveIdle /\ BatchOff

\* solve_moral_situation_split_stream(post_data) of file s, whole.
Call(s) ==
    /\ pc = "start" /\ mainpc = "off"
    /\ \E ans \in OptimizerAnswers(soft_clauses(post_data)) :
        LET o == solve_moral_situation_split_stream(s, post_data, ans[1], ans[2])
        IN
        /\ script' = s
        /\ pc' = o.pc
        /\ locals' = o.locals
        /\ soft' = o.soft
        /\ checked' = o.checked
        /\ check_result' = o.check_result
        /\ model' = o.model
        /\ verdict' = o.verdict
        /\ exc' = o.exc
    /\ UNCHANGED post_data
    /\ UNCHANGED batch_vars

SolveDemo == Call("demo")

SolveHC == Call("hc")

Next == SolveDemo \/ SolveHC

Spec == Init /\ [][Next]_vars

---------------------------------------------------------------------------
(* The batch run of src/high_conflict_z3.py. *)

post_get_id(post) == IF post.post_id = Missing THEN "Unknown" ELSE post.post_id

gt_map_get(map, post_id) == IF post_id \in DOMAIN map THEN map[post_id] ELSE "Unknown"

\* The row writer.writerow gets; line is the number of the input line, kept
\* to tell the rows apart (the title column, copied from the post, is left
\* out).
Row(line, post, v, map) ==
    [line |-> line, post_id |-> post_get_id(post), z3_verdict |-> v,
     ground_truth_label |-> gt_map_get(map, post_get_id(post))]

BatchInit ==
    /\ post_data = NoPost
    /\ SolveIdle
    /\ file \in SeqsUpTo(BatchLines, MaxLines)
    /\ gt_map \in GtMaps
    /\ idx = 1 /\ rows = <<>> /\ count = 0
    /\ mainpc = "loop"

\* `if line.strip():` is false: nothing happens for the line.
SkipBlankLine ==
    /\ mainpc = "loop" /\ idx <= Len(file)
    /\ file[idx].kind = "blank"
    /\ idx' = idx + 1
    /\ UNCHANGED <<file, gt_map, rows, count, mainpc>>
    /\ UNCHANGED solve_vars

\* json.loads raises JSONDecodeError: `continue`.
SkipUndecodableLine ==
    /\ mainpc = "loop" /\ idx <= Len(file)
    /\ file[idx].kind = "garbage"
    /\ idx' = idx + 1
    /\ UNCHANGED <<file, gt_map, rows, count, mainpc>>
    /\ UNCHANGED solve_vars

\* post.get raises AttributeError on a value that is no dict; the inner
\* handler catches JSONDecodeError only, so the exception leaves the loop
\* and reaches `except Exception` at the end of the script.
AbortOnNonObject ==
    /\ mainpc = "loop" /\ idx <= Len(file)
    /\ file[idx].kind = "value"
    /\ mainpc' = "aborted"
    /\ UNCHANGED <<file, gt_map, idx, rows, count>>
    /\ UNCHANGED solve_vars

\* A post: the solver runs; its exception leaves the loop the same way,
\* otherwise the row is written and the counter goes up.
ProcessPost ==
    /\ mainpc = "loop" /\ idx <= Len(file)
    /\ file[idx].kind = "object"
    /\ \E ans \in OptimizerAnswers(soft_clauses(file[idx].post)) :
        LET o == solve_moral_situation_split_stream("hc", file[idx].post, ans[1], ans[2])
        IN
        IF o.exc # "none"
        THEN /\ mainpc' = "aborted"
             /\ UNCHANGED <<idx, rows, count>>
        ELSE /\ rows' = Append(rows, Row(idx, file[idx].post, o.verdict, gt_map))
             /\ count' = count + 1
             /\ idx' = idx + 1
             /\ UNCHANGED mainpc
    /\ UNCHANGED <<file, gt_map>>
    /\ UNCHANGED solve_vars

\* The file is exhausted: "Success! Processed {count} posts."
EndOfFile ==
    /\ mainpc = "loop" /\ idx > Len(file)
    /\ mainpc' = "finished"
    /\ UNCHANGED <<file, gt_map, idx, rows, count>>
    /\ UNCHANGED solve_vars

BatchNext ==
    SkipBlankLine \/ SkipUndecodableLine \/ AbortOnNonObject \/ ProcessPost \/ EndOfFile

BatchSpec == BatchInit /\ [][BatchNext]_vars

---------------------------------------------------------------------------
(* Properties.  The definitions below restate the claims from the input:   *)
(* votes, weights and sums are computed from post_data with integer        *)
(* arithmetic, not with the operators of the function above and not from   *)
(* the clauses it recorded.                                                *)

Resolved == pc = "returned" /\ check_result = "sat"

InputComments ==
    IF post_data.has_comments THEN post_data.processed_comments ELSE <<>>

\* The five quality values the claims give a comment.
ClaimQuality(cm) ==
    [k \in 1..5 |-> IF cm.has_q /\ k <= Len(cm.q_vec) THEN cm.q_vec[k] ELSE One]

\* (x + y) * z as the exact fraction num / 2^exp.
ClaimProduct(x, y, z) ==
    LET e == IF x[2] >= y[2] THEN x[2] ELSE y[2]
    IN  [num |-> (x[1] * 2^(e - x[2]) + y[1] * 2^(e - y[2])) * z[1],
         exp |-> e + z[2]]

\* The integer part of num / 2^exp, the fraction cut toward zero: the w
\* with w <= num / 2^exp < w + 1 for a fraction >= 0 and with
\* w - 1 < num / 2^exp <= w for a fraction < 0.
ClaimIntegerPart(f) ==
    LET size == IF f.num >= 0 THEN f.num ELSE -f.num
    IN  CHOOSE w \in (-size)..size :
            IF f.num >= 0
            THEN w * 2^f.exp <= f.num /\ f.num < (w + 1) * 2^f.exp
            ELSE (w - 1) * 2^f.exp < f.num /\ f.num <= w * 2^f.exp

ClaimLogicWeight(cm) ==
    ClaimIntegerPart(ClaimProduct(ClaimQuality(cm)[1], ClaimQuality(cm)[3], ClaimQuality(cm)[5]))

ClaimEthicWeight(cm) ==
    ClaimIntegerPart(ClaimProduct(ClaimQuality(cm)[2], ClaimQuality(cm)[4], ClaimQuality(cm)[5]))

ClaimWeight(cm, k) == IF k <= 2 THEN ClaimLogicWeight(cm) ELSE ClaimEthicWeight(cm)

\* The vote of a comment on proposition k (an absent content vector votes
\* false on all four).
ClaimVote(cm, k) == cm.has_c /\ cm.c_vec[k] = 1

\* The summed weight of the comments voting pol on proposition k.
VoteWeight(cms, k, pol) ==
    LET RECURSIVE upto(_)
        upto(n) == IF n = 0 THEN 0
                   ELSE upto(n - 1)
                        + (IF ClaimVote(cms[n], k) = pol THEN ClaimWeight(cms[n], k) ELSE 0)
    IN  upto(Len(cms))

\* The total weight of the clauses of all comments that assignment a
\* satisfies: over the four propositions, the weight voting a's value.
TotalSatisfied(cms, a) ==
    VoteWeight(cms, 1, a.harm) + VoteWeight(cms, 2, a.intent)
    + VoteWeight(cms, 3, a.empathy) + VoteWeight(cms, 4, a.apology)

\* C1: when the optimizer resolves an assignment for a post with comments,
\* the assignment the function reads has a total satisfied soft-clause
\* weight at least that of each of the other 15 assignments, a clause of
\* polarity p on X being satisfied iff the assignment gives X the value p.
C1_ChosenAssignmentIsMaximal ==
    Resolved =>
        LET total == [a \in Assignments |-> TotalSatisfied(InputComments, a)]
        IN  \A b \in Assignments : total[model] >= total[b]

\* Two comments vote against each other on harm and agree on intent; the
\* heavier vote on harm wins, so the assignment read differs on harm and
\* intent.
C1_Witness ==
    /\ Resolved
    /\ Len(InputComments) = 2
    /\ ClaimVote(InputComments[1], 1) /\ ~ClaimVote(InputComments[2], 1)
    /\ ClaimVote(InputComments[1], 2) /\ ClaimVote(InputComments[2], 2)
    /\ ClaimLogicWeight(InputComments[1]) < ClaimLogicWeight(InputComments[2])
    /\ ~model.harm /\ model.intent

\* C2: a post whose processed_comments is empty or absent returns "No Data"
\* (the code's spelling of NoData), whatever its other fields, with no soft
\* clause added and without calling opt.check().
C2_NoCommentsGivesNoData ==
    (pc # "start" /\ InputComments = <<>>) =>
        /\ pc = "returned"
        /\ verdict = "No Data"
        /\ soft = <<>>
        /\ ~checked
        /\ exc = "none"

C2_Witness ==
    /\ pc = "returned"
    /\ ~post_data.has_comments
    /\ post_data.post_id = "p2"
    /\ verdict = "No Data"

MalformedRecord(l) ==
    \/ l.kind \in {"garbage", "value"}
    \/ /\ l.kind = "object"
       /\ \E i \in 1..Len(l.post.processed_comments) :
            /\ l.post.processed_comments[i].has_c
            /\ Len(l.post.processed_comments[i].c_vec) < 4

WellFormedRecord(l) == l.kind = "object" /\ ~MalformedRecord(l)

\* C3: in the batch run a malformed record (not JSON, JSON that is no
\* object, or a post with a content vector of the wrong shape) is skipped
\* and every well-formed record after it still gets its output row.
C3_BadRecordIsNotFatal ==
    mainpc \in {"finished", "aborted"} =>
        \A i \in 1..Len(file), j \in 1..Len(file) :
            (i < j /\ MalformedRecord(file[i]) /\ WellFormedRecord(file[j])) =>
                \E r \in 1..Len(rows) : rows[r].line = j

MalformedVectors(cm) ==
    \/ ~cm.has_c
    \/ ~cm.has_q
    \/ Len(cm.c_vec) < 4
    \/ Len(cm.q_vec) < 5

\* C4: a comment with malformed vectors (either vector absent, content
\* vector shorter than 4, quality vector shorter than 5) raises no error:
\* the function returns.
C4_NoErrorOnMalformedVectors ==
    (pc # "start" /\ \E i \in 1..Len(InputComments) : MalformedVectors(InputComments[i])) =>
        /\ pc = "returned"
        /\ exc = "none"

\* C5: a supplied quality vector of length n < 5 is used as its n entries
\* followed by 5 - n ones, of length exactly 5; of a vector of length >= 5
\* the first five entries are used.
C5_QualityVectorPadding ==
    pc # "start" =>
        \A i \in 1..Len(locals) :
            LET cm == InputComments[i]
                n  == Len(cm.q_vec)
                l  == locals[i]
            IN  cm.has_q =>
                  /\ n < 5 => /\ Len(l.q_vec) = 5
                              /\ \A k \in 1..5 :
                                    l.q_vec[k] = IF k <= n THEN cm.q_vec[k] ELSE One
                  /\ <<l.justif, l.ethic, l.delib, l.fair_blame, l.non_biased>>
                        = [k \in 1..5 |-> IF k <= n THEN cm.q_vec[k] ELSE One]

C5_Witness ==
    /\ pc = "returned"
    /\ Len(InputComments) = 1
    /\ InputComments[1].has_q
    /\ InputComments[1].q_vec = <<Two, Half>>
    /\ locals[1].q_vec = <<Two, Half, One, One, One>>

\* C6: for a resolved assignment both files return YTA on harm and intent,
\* ESH on harm without intent, empathy and apology, and NTA or NAH on every
\* other assignment: never Unclear, never nothing.
C6_VerdictOfResolvedAssignment ==
    Resolved =>
        /\ (model.harm /\ model.intent) => verdict = "YTA"
        /\ (model.harm /\ ~model.intent /\ ~model.empathy /\ ~model.apology)
                => verdict = "ESH"
        /\ (~model.harm \/ (~model.intent /\ (model.empathy \/ model.apology)))
                => verdict \in {"NTA", "NAH"}
        /\ verdict \notin {"Unclear", NoneValue}

C6_Witness ==
    /\ Resolved
    /\ script = "demo"
    /\ model.harm /\ ~model.intent /\ ~model.empathy /\ model.apology
    /\ verdict = "NTA"

SixLabels == {"YTA", "NTA", "NAH", "ESH", "Unclear", "No Data"}

\* C8: when opt.check() does not report sat the function returns Unclear in
\* both files, so every return value is one of the six labels.
C8_UnclearWhenNotResolved ==
    /\ (pc = "returned" /\ checked /\ check_result # "sat") => verdict = "Unclear"
    /\ pc = "returned" => verdict \in SixLabels

\* C9: each comment adds exactly four clauses, Harm and Intent weighted
\* int((justification + deliberative) * non_biased), Empathy and Apology
\* weighted int((ethic + fairness) * non_biased), polarity true iff the
\* content flag is 1; and a proposition whose true votes outweigh its false
\* votes over all comments (or the reverse) is resolved to the heavier side.
C9_ClausesAndAggregateVote ==
    (pc = "returned" /\ checked) =>
        /\ Len(soft) = 4 * Len(InputComments)
        /\ \A i \in 1..Len(InputComments), k \in 1..4 :
                soft[4 * (i - 1) + k]
                    = [prop   |-> Props[k],
                       pol    |-> ClaimVote(InputComments[i], k),
                       weight |-> ClaimWeight(InputComments[i], k)]
        /\ check_result = "sat" =>
                \A k \in 1..4 :
                    /\ VoteWeight(InputComments, k, TRUE) > VoteWeight(InputComments, k, FALSE)
                            => model[Props[k]] = TRUE
                    /\ VoteWeight(InputComments, k, FALSE) > VoteWeight(InputComments, k, TRUE)
                            => model[Props[k]] = FALSE

\* The first comment votes harm with weight 2 and empathy with weight 2,
\* the second votes against harm with weight 3 and against empathy with
\* weight int(1.5) = 1: harm is resolved false, empathy true.
C9_Witness ==
    /\ Resolved
    /\ Len(InputComments) = 2
    /\ ClaimVote(InputComments[1], 1) /\ ~ClaimVote(InputComments[2], 1)
    /\ ClaimVote(InputComments[1], 3) /\ ~ClaimVote(InputComments[2], 3)
    /\ soft[1].weight = 2 /\ soft[5].weight = 3
    /\ soft[3].weight = 2 /\ soft[7].weight = 1
    /\ ~model.harm
    /\ model.empathy

SwapNTANAH(v) == IF v = "NTA" THEN "NAH" ELSE IF v = "NAH" THEN "NTA" ELSE v

OtherFileVerdict == IF script = "demo" THEN final_rules_hc(model) ELSE final_rules_demo(model)

\* C10: on every resolved assignment the verdict of one file equals the
\* verdict of the other file's rules after exchanging NTA and NAH; the two
\* differ exactly on harm = false and on harm, no intent, empathy or
\* apology, and agree on YTA and ESH.
C10_RulesEqualUpToLabelSwap ==
    Resolved =>
        /\ SwapNTANAH(verdict) = OtherFileVerdict
        /\ (verdict # OtherFileVerdict)
                <=> (~model.harm \/ (~model.intent /\ (model.empathy \/ model.apology)))
        /\ (verdict \in {"YTA", "ESH"} \/ OtherFileVerdict \in {"YTA", "ESH"})
                => verdict = OtherFileVerdict

C10_Witness ==
    /\ Resolved
    /\ script = "hc"
    /\ ~model.harm /\ model.intent
    /\ verdict = "NTA"
    /\ OtherFileVerdict = "NAH"

===========================================================================
